---- MODULE Spec2Model ----
(***************************************************************************)
(* NoteService (src/modules/note/note.service.ts): five operations over    *)
(* the two collections Note and Channel.  Every await of a store call is   *)
(* one atomic step of the store; calls of different requests interleave    *)
(* at these steps.  The two deleteOne calls of deleteNote are issued       *)
(* together (Promise.all) and complete in either order.                    *)
(***************************************************************************)
EXTENDS Integers, Sequences, FiniteSets, TLC

VARIABLES notes, channels, nextId, calls

vars == <<notes, channels, nextId, calls>>

\* ------------------------------------------------------------------ bounds
MaxCalls == 2        \* requests handled (slots of in-flight calls)
MaxSkip == 1         \* query.skip ranges over 0..MaxSkip
MaxLimit == 1        \* query.limit ranges over 1..MaxLimit

\* ------------------------------------------------------- program constants
OK == 200
CREATED == 201
NO_CONTENT == 204
NOT_FOUND == 404
INTERNAL_SERVER_ERROR == 500

ChannelNotFoundMessage == "You need to connect to at least one channel"
NoteNotFoundMessage == "Note Not Found"
StoreErrorMessage == "store error"

\* ------------------------------------------------------------------ values
Users == {1, 2}
Calls == 1..MaxCalls
Null == "null"
SoftDeleted == "2024-01-01"

NoChannel ==
  [id |-> 0, user |-> 0, isDefault |-> FALSE, deletedAt |-> Null,
   name |-> "", type |-> ""]

NoNote == [id |-> 0, user |-> 0, channel |-> 0, content |-> "", tags |-> <<>>]

\* The store the service is constructed over: the Channel collection is
\* written by another module, never by NoteService (which only deletes).
\* User 1 has an active default channel; user 2 has a soft-deleted default
\* channel and an active non-default one, hence no channel for a create
\* without channelId.
SeedChannels ==
  { [id |-> 1, user |-> 1, isDefault |-> TRUE, deletedAt |-> Null,
     name |-> "inbox", type |-> "telegram"],
    [id |-> 2, user |-> 2, isDefault |-> TRUE, deletedAt |-> SoftDeleted,
     name |-> "old", type |-> "email"],
    [id |-> 3, user |-> 2, isDefault |-> FALSE, deletedAt |-> Null,
     name |-> "work", type |-> "email"] }

ChannelIds == {c.id : c \in SeedChannels}

\* Notes stored before the modelled calls: a note of user 1 on user 1's
\* default channel.  Every stored note references a stored channel.
SeedNotes ==
  { [id |-> 1, user |-> 1, channel |-> 1, content |-> "call mom",
     tags |-> <<>>] }

\* ids a caller may name: the stored notes and the next one created
NoteIdArgs == 1..(Cardinality(SeedNotes) + 1)

\* CreateNoteDto: channelId optional (0 = absent)
CreatePayloads ==
  { [channelId |-> c, content |-> "buy milk", tags |-> <<"home">>] :
      c \in {0} \cup ChannelIds }

\* UpdateNoteDto: a partial payload, only the fields in `fields` are present
UpdatePayloads ==
  { [fields |-> {"content"}, content |-> "call mom", tags |-> <<>>],
    [fields |-> {"content", "tags"}, content |-> "buy milk",
     tags |-> <<"home">>] }

NoData ==
  [id |-> 0, content |-> "", tags |-> <<>>, channel |-> [name |-> "", type |-> ""],
   items |-> <<>>, totalRecord |-> 0, skip |-> 0, limit |-> 0,
   matchedCount |-> 0, modifiedCount |-> 0, deletedCount |-> 0]

NoError == [status |-> 0, message |-> ""]

IdleCall ==
  [pc |-> "idle", op |-> "none", userId |-> 0, id |-> 0,
   payloadChannelId |-> 0, channelId |-> 0,
   content |-> "", tags |-> <<>>, fields |-> {}, skip |-> 0, limit |-> 0,
   channel |-> NoChannel, note |-> NoNote, items |-> <<>>,
   noteDel |-> "none", chanDel |-> "none", deletedCount |-> 0,
   outcome |-> "none", statusCode |-> 0, data |-> NoData,
   raised |-> NoError, error |-> NoError]

\* ----------------------------------------------------------- the envelope
\* return { data, statusCode }
Return(call, statusCode, data) ==
  [call EXCEPT !.outcome = "returned", !.statusCode = statusCode, !.data = data]

\* (variant: a catch that lets an HttpException keep its status)
CatchKeepingStatus(e) ==
  [status |-> IF e.status = 0 THEN INTERNAL_SERVER_ERROR ELSE e.status,
   message |-> e.message]

\* catch (error) { throw new HttpException(error.message, 500) }
Catch(e) == [status |-> INTERNAL_SERVER_ERROR, message |-> e.message]

\* an error raised inside the try block reaches the caller through the catch
Throw(call, e) ==
  [call EXCEPT !.outcome = "thrown", !.raised = e, !.error = Catch(e)]

StoreError == [status |-> 0, message |-> StoreErrorMessage]

\* ------------------------------------------------------------------- Init
Init ==
  /\ notes = SeedNotes
  /\ channels = SeedChannels
  /\ nextId = Cardinality(SeedNotes) + 1
  /\ calls = [p \in Calls |-> IdleCall]

\* A request takes the next free slot.  A method runs up to its first store
\* call when it is called, so a call enters the model with the step of its
\* first store call; the later store calls are steps of their own, and the
\* steps of different calls interleave.
Free(p) ==
  /\ calls[p].pc = "idle"
  /\ \A q \in Calls : q < p => calls[q].pc # "idle"

\* ------------------------------------------------------------- createNote
CreateNoteCalls ==
  { [IdleCall EXCEPT !.op = "createNote", !.userId = userId,
                     !.payloadChannelId = payload.channelId,
                     !.channelId = payload.channelId,
                     !.content = payload.content, !.tags = payload.tags,
                     !.pc = IF payload.channelId = 0
                            THEN "findChannel" ELSE "create"] :
      userId \in Users, payload \in CreatePayloads }

\* (variant: the lookup without `deletedAt: null`)
DefaultChannelsIgnoringDeletedAt(userId) ==
  {c \in channels : c.isDefault /\ c.user = userId}

\* channelModel.findOne({ isDefault: true, user: userId, deletedAt: null })
DefaultChannels(userId) ==
  {c \in channels : c.isDefault /\ c.user = userId /\ c.deletedAt = Null}

CreateFindChannel(p, call) ==
  /\ call.pc = "findChannel"
  /\ IF DefaultChannels(call.userId) = {}
     THEN calls' = [calls EXCEPT ![p] =
            Throw([call EXCEPT !.pc = "done"],
                  [status |-> NOT_FOUND, message |-> ChannelNotFoundMessage])]
     ELSE \E c \in DefaultChannels(call.userId) :
            calls' = [calls EXCEPT ![p] =
              [call EXCEPT !.channel = c, !.channelId = c.id, !.pc = "create"]]
  /\ UNCHANGED <<notes, channels, nextId>>

\* the document noteModel.create persists
NewNote(call) ==
  [id |-> nextId, user |-> call.userId, channel |-> call.channelId,
   content |-> call.content, tags |-> call.tags]

CreateInsert(p, call) ==
  /\ call.pc = "create"
  /\ notes' = notes \cup {NewNote(call)}
  /\ nextId' = nextId + 1
  /\ calls' = [calls EXCEPT ![p] =
       Return([call EXCEPT !.pc = "done"], CREATED,
              [NoData EXCEPT !.id = nextId])]
  /\ UNCHANGED channels

\* createNote is called: the default-channel lookup, or with a channelId
\* the insert
CreateNote(p) ==
  \E call \in CreateNoteCalls :
    /\ Free(p)
    /\ \/ CreateFindChannel(p, call)
       \/ CreateInsert(p, call)

\* createNote resumes after the lookup
CreateNoteInsert(p) == CreateInsert(p, calls[p])

\* ---------------------------------------------------------------- getNote
GetNoteCalls ==
  { [IdleCall EXCEPT !.op = "getNote", !.userId = userId, !.id = id,
                     !.pc = "findOne"] :
      userId \in Users, id \in NoteIdArgs }

\* noteModel.findOne({ _id: id, user: userId })
GetNoteMatches(id, userId) == {n \in notes : n.id = id /\ n.user = userId}

\* .populate({ path: 'channel', select: 'name type' }): null when the
\* referenced channel is not stored
Populate(channelId) ==
  IF \E c \in channels : c.id = channelId
  THEN LET c == CHOOSE c \in channels : c.id = channelId
       IN  [name |-> c.name, type |-> c.type]
  ELSE NoData.channel

GetNoteFindOne(p, call) ==
  /\ call.pc = "findOne"
  /\ IF GetNoteMatches(call.id, call.userId) = {}
     THEN calls' = [calls EXCEPT ![p] =
            Throw([call EXCEPT !.pc = "done"],
                  [status |-> NOT_FOUND, message |-> NoteNotFoundMessage])]
     ELSE \E n \in GetNoteMatches(call.id, call.userId) :
            calls' = [calls EXCEPT ![p] =
              Return([call EXCEPT !.pc = "done"], OK,
                     [NoData EXCEPT !.id = n.id, !.content = n.content,
                                    !.tags = n.tags,
                                    !.channel = Populate(n.channel)])]
  /\ UNCHANGED <<notes, channels, nextId>>

GetNote(p) ==
  \E call \in GetNoteCalls : Free(p) /\ GetNoteFindOne(p, call)

\* --------------------------------------------------------------- getNotes
GetNotesCalls ==
  { [IdleCall EXCEPT !.op = "getNotes", !.userId = userId, !.skip = skip,
                     !.limit = limit, !.pc = "find"] :
      userId \in Users, skip \in 0..MaxSkip, limit \in 1..MaxLimit }

\* noteModel.find({ user: userId })
GetNotesMatches(userId) == {n \in notes : n.user = userId}

\* the store returns documents in insertion order (ids grow with insertion)
RECURSIVE InOrder(_)
InOrder(S) ==
  IF S = {} THEN <<>>
  ELSE LET first == CHOOSE n \in S : \A m \in S : n.id <= m.id
       IN  <<first>> \o InOrder(S \ {first})

\* .skip(query.skip).limit(query.limit)
Page(seq, skip, limit) ==
  SubSeq(seq, skip + 1, IF skip + limit < Len(seq) THEN skip + limit ELSE Len(seq))

\* .select('-_id id content tags status')
Project(seq) ==
  [i \in 1..Len(seq) |->
     [id |-> seq[i].id, content |-> seq[i].content, tags |-> seq[i].tags]]

GetNotesFind(p, call) ==
  /\ call.pc = "find"
  /\ calls' = [calls EXCEPT ![p] =
       [call EXCEPT !.items = Project(Page(InOrder(GetNotesMatches(call.userId)),
                                           call.skip, call.limit)),
                    !.pc = "count"]]
  /\ UNCHANGED <<notes, channels, nextId>>

\* noteModel.countDocuments({ userId }): Note documents are stored with the
\* field `user`, none has a field `userId`.  With strictQuery on, the driver
\* drops the unknown key and the filter is {}; with strictQuery off the
\* filter { userId: ... } matches no document.
CountStrict(userId) == Cardinality(notes)
CountLoose(userId) == Cardinality({n \in notes : FALSE})

GetNotesCount(p) ==
  /\ calls[p].pc = "count"
  /\ \E totalRecord \in {CountStrict(calls[p].userId), CountLoose(calls[p].userId)} :
       calls' = [calls EXCEPT ![p] =
         Return([@ EXCEPT !.pc = "done"], OK,
                [NoData EXCEPT !.items = calls[p].items,
                               !.totalRecord = totalRecord,
                               !.skip = calls[p].skip,
                               !.limit = calls[p].limit])]
  /\ UNCHANGED <<notes, channels, nextId>>

GetNotes(p) ==
  \E call \in GetNotesCalls : Free(p) /\ GetNotesFind(p, call)

\* ------------------------------------------------------------- updateNote
UpdateNoteCalls ==
  { [IdleCall EXCEPT !.op = "updateNote", !.userId = userId, !.id = id,
                     !.fields = payload.fields, !.content = payload.content,
                     !.tags = payload.tags, !.pc = "updateOne"] :
      userId \in Users, id \in NoteIdArgs, payload \in UpdatePayloads }

\* (variant: the update filtered by _id alone)
UpdateMatchesAnyUser(id, userId) == {n \in notes : n.id = id}

\* noteModel.updateOne({ _id: id, user: userId }, ...)
UpdateMatches(id, userId) == {n \in notes : n.id = id /\ n.user = userId}

\* { $set: payload }
SetFields(n, call) ==
  [n EXCEPT !.content = IF "content" \in call.fields THEN call.content ELSE @,
            !.tags = IF "tags" \in call.fields THEN call.tags ELSE @]

UpdateOne(p, call) ==
  /\ call.pc = "updateOne"
  /\ IF UpdateMatches(call.id, call.userId) = {}
     THEN /\ notes' = notes
          /\ calls' = [calls EXCEPT ![p] =
               Return([call EXCEPT !.pc = "done"], OK,
                      [NoData EXCEPT !.id = call.id])]
     ELSE \E n \in UpdateMatches(call.id, call.userId) :
            /\ notes' = (notes \ {n}) \cup {SetFields(n, call)}
            /\ calls' = [calls EXCEPT ![p] =
                 Return([call EXCEPT !.pc = "done"], OK,
                        [NoData EXCEPT
                           !.id = call.id, !.matchedCount = 1,
                           !.modifiedCount =
                             IF SetFields(n, call) = n THEN 0 ELSE 1])]
  /\ UNCHANGED <<channels, nextId>>

UpdateNote(p) ==
  \E call \in UpdateNoteCalls : Free(p) /\ UpdateOne(p, call)

\* ------------------------------------------------------------- deleteNote
DeleteNoteCalls ==
  { [IdleCall EXCEPT !.op = "deleteNote", !.userId = userId, !.id = id,
                     !.pc = "deleteFindOne"] :
      userId \in Users, id \in NoteIdArgs }

\* (variant: the lookup filtered by _id alone)
DeleteFindMatchesAnyUser(id, userId) == {n \in notes : n.id = id}

\* noteModel.findOne({ _id: id, user: userId })
DeleteFindMatches(id, userId) == {n \in notes : n.id = id /\ n.user = userId}

DeleteFindOne(p, call) ==
  /\ call.pc = "deleteFindOne"
  /\ IF DeleteFindMatches(call.id, call.userId) = {}
     THEN calls' = [calls EXCEPT ![p] =
            Throw([call EXCEPT !.pc = "done"],
                  [status |-> NOT_FOUND, message |-> NoteNotFoundMessage])]
     ELSE \E n \in DeleteFindMatches(call.id, call.userId) :
            calls' = [calls EXCEPT ![p] =
              [call EXCEPT !.note = n, !.pc = "deleteAll",
                           !.noteDel = "pending", !.chanDel = "pending"]]
  /\ UNCHANGED <<notes, channels, nextId>>

DeleteNote(p) ==
  \E call \in DeleteNoteCalls : Free(p) /\ DeleteFindOne(p, call)

\* await Promise.all([...]): rejects with the first rejection, resolves once
\* both calls resolved; a call already issued completes either way
Join(call) ==
  LET settled == call.noteDel # "pending" /\ call.chanDel # "pending"
      c == [call EXCEPT !.pc = IF settled THEN "done" ELSE "deleteAll"]
  IN  IF c.outcome # "none" THEN c
      ELSE IF c.noteDel = "failed" \/ c.chanDel = "failed"
           THEN Throw(c, StoreError)
      ELSE IF c.noteDel = "ok" /\ c.chanDel = "ok"
           THEN Return(c, NO_CONTENT,
                       [NoData EXCEPT !.id = c.id,
                                      !.deletedCount = c.deletedCount])
      ELSE c

\* noteModel.deleteOne({ _id: id, user: userId })
NoteDeleteMatches(id, userId) == {n \in notes : n.id = id /\ n.user = userId}

NoteDeleteOne(p) ==
  /\ calls[p].pc = "deleteAll"
  /\ calls[p].noteDel = "pending"
  /\ notes' = notes \ NoteDeleteMatches(calls[p].id, calls[p].userId)
  /\ calls' = [calls EXCEPT ![p] =
       Join([@ EXCEPT !.noteDel = "ok",
                      !.deletedCount =
                        Cardinality(NoteDeleteMatches(calls[p].id,
                                                      calls[p].userId))])]
  /\ UNCHANGED <<channels, nextId>>

\* (variant: the cascade filtered by the caller instead of the reference)
ChannelDeleteMatchesByUser(call) == {c \in channels : c.user = call.userId}

\* channelModel.deleteOne({ _id: note.channel })
ChannelDeleteMatches(call) == {c \in channels : c.id = call.note.channel}

ChannelDeleteOne(p) ==
  /\ calls[p].pc = "deleteAll"
  /\ calls[p].chanDel = "pending"
  /\ channels' = channels \ ChannelDeleteMatches(calls[p])
  /\ calls' = [calls EXCEPT ![p] = Join([@ EXCEPT !.chanDel = "ok"])]
  /\ UNCHANGED <<notes, nextId>>

\* ----------------------------------------------------------- store errors
\* one of the two deleteOne calls rejects: nothing is deleted by that call
NoteDeleteFails(p) ==
  /\ calls[p].pc = "deleteAll"
  /\ calls[p].noteDel = "pending"
  /\ calls' = [calls EXCEPT ![p] = Join([@ EXCEPT !.noteDel = "failed"])]
  /\ UNCHANGED <<notes, channels, nextId>>

\* (variant: a failed channel deletion that restores the deleted note)
ChannelDeleteFailsWithRollback(p) ==
  /\ calls[p].pc = "deleteAll"
  /\ calls[p].chanDel = "pending"
  /\ calls' = [calls EXCEPT ![p] = Join([@ EXCEPT !.chanDel = "failed"])]
  /\ notes' = IF calls[p].noteDel = "ok" THEN notes \cup {calls[p].note} ELSE notes
  /\ UNCHANGED <<channels, nextId>>

ChannelDeleteFails(p) ==
  /\ calls[p].pc = "deleteAll"
  /\ calls[p].chanDel = "pending"
  /\ calls' = [calls EXCEPT ![p] = Join([@ EXCEPT !.chanDel = "failed"])]
  /\ UNCHANGED <<notes, channels, nextId>>

\* an awaited store call rejects: the catch block of the method runs
StoreCallFails(p, call) ==
  /\ calls' = [calls EXCEPT ![p] = Throw([call EXCEPT !.pc = "done"], StoreError)]
  /\ UNCHANGED <<notes, channels, nextId>>

\* the first store call of a method rejects
FirstCallFails(p) ==
  \E call \in CreateNoteCalls \cup GetNoteCalls \cup GetNotesCalls
                \cup UpdateNoteCalls \cup DeleteNoteCalls :
    Free(p) /\ StoreCallFails(p, call)

\* noteModel.create after the lookup, or countDocuments, rejects
LaterCallFails(p) ==
  /\ calls[p].pc \in {"create", "count"}
  /\ StoreCallFails(p, calls[p])

Next ==
  \E p \in Calls :
    \/ CreateNote(p)
    \/ CreateNoteInsert(p)
    \/ GetNote(p)
    \/ GetNotes(p)
    \/ GetNotesCount(p)
    \/ UpdateNote(p)
    \/ DeleteNote(p)
    \/ NoteDeleteOne(p)
    \/ ChannelDeleteOne(p)
    \/ NoteDeleteFails(p)
    \/ ChannelDeleteFails(p)
    \/ FirstCallFails(p)
    \/ LaterCallFails(p)

Spec == Init /\ [][Next]_vars
\* ================================================================= claims
Stepped(p) == calls'[p] # calls[p]

Owned(userId) == {n \in notes : n.user = userId}

Min(a, b) == IF a < b THEN a ELSE b
Max(a, b) == IF a < b THEN b ELSE a

Stored(id) == \E n \in notes : n.id = id
ChannelStored(id) == \E c \in channels : c.id = id

\* C1: a note stored with user U1 is never returned by getNote or getNotes
\* called with another identity, and no step of a call made with another
\* identity changes or removes it.
C1Step ==
  \A p \in Calls :
    Stepped(p) =>
      \A n \in notes :
        n.user # calls'[p].userId =>
          /\ n \in notes'
          /\ (calls'[p].op = "getNote" /\ calls'[p].outcome = "returned")
               => calls'[p].data.id # n.id
          /\ calls'[p].op = "getNotes"
               => \A i \in 1..Len(calls'[p].items) :
                    calls'[p].items[i].id # n.id

C1Isolation == [][C1Step]_vars

\* user 2 has called updateNote and deleteNote on user 1's note, which is
\* still stored as it was
C1Witness ==
  \E p, q \in Calls :
    /\ calls[p].op = "updateNote" /\ calls[p].userId = 2 /\ calls[p].id = 1
    /\ calls[p].outcome = "returned"
    /\ calls[q].op = "deleteNote" /\ calls[q].userId = 2 /\ calls[q].id = 1
    /\ calls[q].outcome = "thrown"
    /\ notes = SeedNotes

\* C2: getNotes with limit L and skip S returns min(L, max(0, N-S)) notes of
\* the caller, N the number of notes the caller owns, and the total record
\* count it reports is N.
C2Step ==
  \A p \in Calls :
    (Stepped(p) /\ calls'[p].op = "getNotes") =>
      LET N == Cardinality(Owned(calls'[p].userId)) IN
        /\ calls'[p].pc = "count" =>
             /\ Len(calls'[p].items)
                  = Min(calls'[p].limit, Max(0, N - calls'[p].skip))
             /\ \A i \in 1..Len(calls'[p].items) :
                  \E n \in Owned(calls'[p].userId) : n.id = calls'[p].items[i].id
        /\ calls'[p].outcome = "returned" => calls'[p].data.totalRecord = N

C2Pagination == [][C2Step]_vars

\* the page itself is scoped: only the count is not
C2PageStep ==
  \A p \in Calls :
    (Stepped(p) /\ calls'[p].op = "getNotes" /\ calls'[p].pc = "count") =>
      LET N == Cardinality(Owned(calls'[p].userId)) IN
        /\ Len(calls'[p].items)
             = Min(calls'[p].limit, Max(0, N - calls'[p].skip))
        /\ \A i \in 1..Len(calls'[p].items) :
             \E n \in Owned(calls'[p].userId) : n.id = calls'[p].items[i].id

C2PageOnly == [][C2PageStep]_vars

\* C3 (as stated): a deleteNote whose lookup found the note and whose two
\* deletions succeeded returns deletedCount = 1, whatever interleaves.
C3DeletedCountOne ==
  \A p \in Calls :
    (calls[p].op = "deleteNote" /\ calls[p].outcome = "returned") =>
      /\ calls[p].data.deletedCount = 1
      /\ ~Stored(calls[p].id)
      /\ ~ChannelStored(calls[p].note.channel)

\* C3 (amended): a deleteNote whose lookup found the note removes no note
\* but that one and no channel but the one the note referenced; when it
\* returns, the note and the channel are gone and deletedCount is 1 if the
\* note was still stored when its deleteOne ran, 0 if an interleaved call
\* had removed it; a later getNote for the id fails with "Note Not Found".
C3Step ==
  \A p \in Calls :
    Stepped(p) =>
      /\ calls'[p].op = "deleteNote" =>
           /\ \A n \in notes : n \notin notes' => n.id = calls'[p].id
           /\ \A c \in channels :
                c \notin channels' => c.id = calls'[p].note.channel
           /\ notes' \subseteq notes
           /\ channels' \subseteq channels
           /\ (calls[p].noteDel = "pending" /\ calls'[p].noteDel = "ok") =>
                /\ ~\E n \in notes' : n.id = calls'[p].id
                /\ calls'[p].deletedCount
                     = IF \E n \in notes : n.id = calls'[p].id /\ n.user = calls'[p].userId
                       THEN 1 ELSE 0
           /\ (calls[p].chanDel = "pending" /\ calls'[p].chanDel = "ok") =>
                ~\E c \in channels' : c.id = calls'[p].note.channel
           /\ calls'[p].outcome = "returned" =>
                /\ calls'[p].statusCode = NO_CONTENT
                /\ calls'[p].data.deletedCount = calls'[p].deletedCount
                /\ calls'[p].data.deletedCount \in {0, 1}
                /\ ~\E n \in notes' : n.id = calls'[p].id
                /\ ~\E c \in channels' : c.id = calls'[p].note.channel
      /\ (/\ calls'[p].op = "getNote"
          /\ \E q \in Calls :
               /\ calls[q].op = "deleteNote" /\ calls[q].outcome = "returned"
               /\ calls[q].id = calls'[p].id
               /\ calls[q].userId = calls'[p].userId)
           => /\ calls'[p].outcome = "thrown"
              /\ calls'[p].raised.message \in {NoteNotFoundMessage, StoreErrorMessage}

C3DeleteExactly == [][C3Step]_vars

\* two deleteNote calls for the same note both found it and both returned:
\* one with deletedCount 1, the other with 0
C3Witness ==
  \E p, q \in Calls :
    /\ calls[p].op = "deleteNote" /\ calls[q].op = "deleteNote"
    /\ calls[p].id = calls[q].id
    /\ calls[p].outcome = "returned" /\ calls[q].outcome = "returned"
    /\ calls[p].data.deletedCount = 1
    /\ calls[q].data.deletedCount = 0
    /\ ~Stored(calls[p].id)
    /\ ~ChannelStored(calls[p].note.channel)

\* C4: every error raised in an operation, a not-found signal or a store
\* failure, reaches the caller with status 500 and the message it was
\* raised with; no other status reaches the caller.
C4ErrorCollapse ==
  \A p \in Calls :
    /\ calls[p].outcome = "thrown" =>
         /\ calls[p].raised # NoError
         /\ calls[p].error.status = INTERNAL_SERVER_ERROR
         /\ calls[p].error.message = calls[p].raised.message
    /\ calls[p].outcome # "thrown" => calls[p].error = NoError

\* a raised not-found signal and a store failure have both reached a caller
C4Witness ==
  \E p, q \in Calls :
    /\ calls[p].outcome = "thrown" /\ calls[p].raised.status = NOT_FOUND
    /\ calls[p].error.status = INTERNAL_SERVER_ERROR
    /\ calls[q].outcome = "thrown" /\ calls[q].raised = StoreError
    /\ calls[q].error.status = INTERNAL_SERVER_ERROR

\* C5: createNote without channelId by a user with no active default
\* channel fails with a NotFound (404) error.
C5NotFound ==
  \A p \in Calls :
    (/\ calls[p].op = "createNote"
     /\ calls[p].outcome = "thrown"
     /\ calls[p].raised.message = ChannelNotFoundMessage)
      => calls[p].error.status = NOT_FOUND

\* C6: a createNote without channelId that succeeds persists exactly one new
\* note with the caller as user and the given content and tags, on a channel
\* the lookup found stored with user = caller, isDefault = true and
\* deletedAt = null.
C6Step ==
  \A p \in Calls :
    (Stepped(p) /\ calls'[p].op = "createNote"
       /\ calls'[p].payloadChannelId = 0) =>
      /\ calls'[p].channel # calls[p].channel =>
           /\ calls'[p].channel \in channels
           /\ calls'[p].channel.user = calls'[p].userId
           /\ calls'[p].channel.isDefault
           /\ calls'[p].channel.deletedAt = Null
      /\ calls'[p].outcome = "returned" =>
           /\ calls'[p].statusCode = CREATED
           /\ channels' = channels
           /\ \E n \in notes' :
                /\ n \notin notes
                /\ notes' = notes \cup {n}
                /\ ~Stored(n.id)
                /\ n.id = calls'[p].data.id
                /\ n.user = calls'[p].userId
                /\ n.content = calls'[p].content
                /\ n.tags = calls'[p].tags
                /\ n.channel = calls[p].channel.id
                /\ calls[p].channel.user = calls'[p].userId
                /\ calls[p].channel.isDefault
                /\ calls[p].channel.deletedAt = Null
      /\ calls'[p].outcome # "returned" => notes' = notes

C6DefaultChannel == [][C6Step]_vars

\* user 1's create without channelId returned 201 and its note is stored on
\* user 1's default channel
C6Witness ==
  \E p \in Calls :
    /\ calls[p].op = "createNote" /\ calls[p].payloadChannelId = 0
    /\ calls[p].outcome = "returned" /\ calls[p].statusCode = CREATED
    /\ \E n \in notes :
         /\ n.id = calls[p].data.id /\ n.user = calls[p].userId
         /\ n.channel = 1

\* C7: with no note matching _id = id and user = userId, updateNote returns
\* 200 with matchedCount = 0 and modifiedCount = 0 (it raises no not-found
\* error) and changes nothing, while deleteNote fails and issues neither
\* deletion.
C7Step ==
  \A p \in Calls :
    (/\ Stepped(p)
     /\ calls[p].pc = "idle"
     /\ ~\E n \in notes : n.id = calls'[p].id /\ n.user = calls'[p].userId) =>
      /\ calls'[p].op = "updateNote" =>
           /\ notes' = notes /\ channels' = channels
           /\ calls'[p].pc = "done"
           /\ \/ /\ calls'[p].outcome = "returned"
                 /\ calls'[p].statusCode = OK
                 /\ calls'[p].data.matchedCount = 0
                 /\ calls'[p].data.modifiedCount = 0
              \/ /\ calls'[p].outcome = "thrown"
                 /\ calls'[p].raised = StoreError
      /\ calls'[p].op = "deleteNote" =>
           /\ notes' = notes /\ channels' = channels
           /\ calls'[p].pc = "done"
           /\ calls'[p].outcome = "thrown"
           /\ calls'[p].noteDel = "none" /\ calls'[p].chanDel = "none"

\* a call that is done takes no further step
C7DoneStep == \A p \in Calls : calls[p].pc = "done" => calls'[p] = calls[p]

C7MissingNote == [][C7Step /\ C7DoneStep]_vars

\* for the same missing note (user 2 naming user 1's note), updateNote
\* returned 200 with zero counts and deleteNote failed; the store is as it was
C7Witness ==
  \E p, q \in Calls :
    /\ calls[p].op = "updateNote" /\ calls[q].op = "deleteNote"
    /\ calls[p].id = calls[q].id /\ calls[p].userId = calls[q].userId
    /\ calls[p].outcome = "returned" /\ calls[p].statusCode = OK
    /\ calls[p].data.matchedCount = 0 /\ calls[p].data.modifiedCount = 0
    /\ calls[q].outcome = "thrown"
    /\ calls[q].raised.message = NoteNotFoundMessage
    /\ notes = SeedNotes /\ channels = SeedChannels

\* C8: when exactly one of deleteNote's two deletions fails, the other one's
\* effect stays, the caller gets an error, and no step of deleteNote puts a
\* note or a channel back.
C8Step ==
  \A p \in Calls :
    (Stepped(p) /\ calls'[p].op = "deleteNote") =>
      /\ notes' \subseteq notes
      /\ channels' \subseteq channels
      /\ (calls'[p].noteDel = "failed" \/ calls'[p].chanDel = "failed") =>
           /\ calls'[p].outcome = "thrown"
           /\ calls'[p].error.status = INTERNAL_SERVER_ERROR
      /\ (calls[p].chanDel = "pending" /\ calls'[p].chanDel = "failed") =>
           /\ notes' = notes /\ channels' = channels
           /\ calls[p].noteDel = "ok" => ~\E n \in notes' : n.id = calls'[p].id
      /\ (calls[p].noteDel = "pending" /\ calls'[p].noteDel = "failed") =>
           /\ notes' = notes /\ channels' = channels
           /\ calls[p].chanDel = "ok" =>
                ~\E c \in channels' : c.id = calls'[p].note.channel
      /\ (calls[p].noteDel = "failed" /\ calls'[p].chanDel = "ok") =>
           /\ notes' = notes
           /\ ~\E c \in channels' : c.id = calls'[p].note.channel
      /\ (calls[p].chanDel = "failed" /\ calls'[p].noteDel = "ok") =>
           /\ channels' = channels
           /\ ~\E n \in notes' : n.id = calls'[p].id

C8NotAtomic == [][C8Step]_vars

\* a deleteNote is over with an error: its note is gone, the channel
\* deletion failed and the channel is still stored
C8Witness ==
  \E p \in Calls :
    /\ calls[p].op = "deleteNote" /\ calls[p].pc = "done"
    /\ calls[p].noteDel = "ok" /\ calls[p].chanDel = "failed"
    /\ calls[p].outcome = "thrown"
    /\ ~Stored(calls[p].id)
    /\ ChannelStored(calls[p].note.channel)

\* the other half: the channel is gone, the note deletion failed and the
\* note is still stored
C8WitnessChannelGone ==
  \E p \in Calls :
    /\ calls[p].op = "deleteNote" /\ calls[p].pc = "done"
    /\ calls[p].noteDel = "failed" /\ calls[p].chanDel = "ok"
    /\ calls[p].outcome = "thrown"
    /\ Stored(calls[p].id)
    /\ ~ChannelStored(calls[p].note.channel)

\* C9: a call made with identity U never deletes or modifies a channel whose
\* user is not U.
C9Step ==
  \A p \in Calls :
    Stepped(p) =>
      \A c \in channels : c.user # calls'[p].userId => c \in channels'

C9ChannelOwnership == [][C9Step]_vars

\* C10: from a store where every note references a stored channel, with
\* createNote never given the id of a missing channel, every note still
\* references a stored channel once the calls are over (no store call having
\* failed).
C10Quiescent ==
  \A p \in Calls :
    /\ calls[p].pc \in {"idle", "done"}
    /\ calls[p].raised # StoreError
    /\ calls[p].op = "createNote" => calls[p].payloadChannelId = 0

C10ReferentialIntegrity ==
  C10Quiescent => \A n \in notes : ChannelStored(n.channel)
====
